---- MODULE Spec2Model ----
(***************************************************************************)
(* restic-reporter: the collection orchestrator (ResticCollector), its     *)
(* repository tasks (gatherOne) and the control plane of main(), as one    *)
(* state machine.  Goroutines are processes; every shared-memory           *)
(* operation (mutex, WaitGroup, atomic pointer, channel) is one step.      *)
(***************************************************************************)
EXTENDS Integers, Sequences, FiniteSets, TLC

\* ------------------------------------------------------------------ bounds

\* calls of GatherMetrics (startup, scheduler, SIGUSR1) that are alive at
\* once: a call is alive until it returned and its goroutines are gone
MaxCalls == 2

\* calls of Add on one SnapshotCollection, and the latest snapshot time
MaxAdds == 3
MaxTime == 2

\* the clock runs to MaxAge hours before and after the latest snapshot time
MaxAge == 50

\* hours on either side of the hour a backup set turns 61 days old
MaxSkew == 3

Runs == 1..MaxCalls

\* an unset string field
Nil == "nil"

\* A pointer is <<>> when nil and <<v>> when it points to the value v.
NilPtr == <<>>
Ptr(v) == <<v>>

\* ----------------------------------------------------------- configuration

\* configEntry
ConfigEntry(disabled, repo, password, vaultMaterial, b2VaultMaterial, b2AccountId, b2Key) ==
    [Disabled |-> disabled, Repo |-> repo, Password |-> password,
     VaultMaterial |-> vaultMaterial, B2VaultMaterial |-> b2VaultMaterial,
     B2AccountId |-> b2AccountId, B2Key |-> b2Key]

\* an entry that gives its password in the file and has no B2 fields
Entry(repo, disabled) == ConfigEntry(disabled, repo, "p", "", "", "", "")

\* The configuration files a (re)load can find on disk: ConfigFile values.
ConfigFiles ==
    { <<>>,
      <<Entry("R1", FALSE), Entry("R2", TRUE)>>,
      <<Entry("R1", TRUE), Entry("R2", FALSE)>> }

\* The file at a load: it cannot be opened ("noent"), it is not JSON
\* ("garbage"), or it decodes to a list.
File(kind, list) == [kind |-> kind, list |-> list]

\* The secrets a Vault holds, by material name, and what sc.Secret answers
\* for one: an error, a secret, or a secret with empty fields.
Materials == {"m", "b"}

SecretError == [err |-> TRUE, AccountID |-> "", Key |-> ""]

Answers == { SecretError,
             [err |-> FALSE, AccountID |-> "id", Key |-> "k"],
             [err |-> FALSE, AccountID |-> "", Key |-> ""] }

Vaults == [Materials -> Answers]

\* a Vault in which every lookup fails
DeadVault == [m \in Materials |-> SecretError]

\* What a load finds: the file and the Vault's answers at that moment.
\* FileStates are the cases a reload meets in Spec: each list of ConfigFiles,
\* a file that cannot be opened, one that is not JSON, and a list whose
\* password is to come from a Vault lookup that fails.
FileStates ==
    [file : { File("json", l) : l \in ConfigFiles }, vault : {DeadVault}]
      \cup [file : { File("noent", <<>>), File("garbage", <<>>),
                     File("json", <<ConfigEntry(FALSE, "R1", "", "m", "", "", "")>>) },
            vault : {DeadVault}]

\* What main's first load can find: no file, no JSON, or a list of up to
\* MaxEntries entries, each with or without a password, a Vault material for
\* the password and a Vault material for the B2 key, under every Vault.
EntryShapes(repo) ==
    { ConfigEntry(d, repo, pw, vm, bvm, "", "") :
        d \in BOOLEAN, pw \in {"", "p"}, vm \in {"", "m"}, bvm \in {"", "b"} }

LoadLists ==
    {<<>>} \cup { <<e>> : e \in EntryShapes("R1") }
           \cup { <<e1, e2>> : e1 \in EntryShapes("R1"), e2 \in EntryShapes("R2") }

LoadStates ==
    [file : { File("noent", <<>>), File("garbage", <<>>) }
              \cup { File("json", l) : l \in LoadLists },
     vault : Vaults]

\* NewConfigFileFromFile, lines 57-72: one iteration of the loop that fills
\* Password and the B2 fields from Vault; the first failing lookup ends it
PopulateEntry(cfg, vault) ==
    LET needKey == cfg.Password = "" /\ cfg.VaultMaterial # ""
        c1 == IF needKey THEN [cfg EXCEPT !.Password = vault[cfg.VaultMaterial].Key]
                         ELSE cfg
        needB2 == c1.B2Key = "" /\ c1.B2VaultMaterial # ""
        c2 == IF needB2
                THEN [c1 EXCEPT !.B2AccountId = vault[c1.B2VaultMaterial].AccountID,
                                !.B2Key = vault[c1.B2VaultMaterial].Key]
                ELSE c1
    IN  IF needKey /\ vault[cfg.VaultMaterial].err THEN [cfg |-> cfg, err |-> TRUE]
        ELSE IF needB2 /\ vault[c1.B2VaultMaterial].err THEN [cfg |-> cfg, err |-> TRUE]
        ELSE [cfg |-> c2, err |-> FALSE]

RECURSIVE Populate(_, _, _)
Populate(out, i, vault) ==
    IF i > Len(out) THEN [cfg |-> out, err |-> FALSE]
    ELSE LET e == PopulateEntry(out[i], vault)
         IN  IF e.err THEN [cfg |-> <<>>, err |-> TRUE]
                      ELSE Populate([out EXCEPT ![i] = e.cfg], i + 1, vault)

\* NewConfigFileFromFile: (ConfigFile, error).  client is "nil" when Vault is
\* disabled: the decoded list is then returned as it is.
NewConfigFileFromFile(file, client, vault) ==
    IF file.kind = "noent" THEN [cfg |-> <<>>, err |-> TRUE]
    ELSE IF file.kind = "garbage" THEN [cfg |-> <<>>, err |-> TRUE]
    ELSE IF client = "nil" THEN [cfg |-> file.list, err |-> FALSE]
    ELSE Populate(file.list, 1, vault)

\* Lists with two enabled repositories: a run with two tasks.
FanConfigs == { <<Entry("R1", FALSE), Entry("R2", FALSE)>> }

MaxEntries == CHOOSE n \in 0..4 : /\ \A f \in ConfigFiles : Len(f) <= n
                                  /\ \E f \in ConfigFiles : Len(f) = n

TaskIds == Runs \X (1..MaxEntries)

\* the loop filter dropped: every entry of the list is collected
EveryIdx(cfg) == 1..Len(cfg)

\* the non-disabled entries of a list, as indices (GatherMetrics' loop filter)
EnabledIdx(cfg) == { i \in 1..Len(cfg) : ~cfg[i].Disabled }

EnabledRepos(cfg) == { cfg[i].Repo : i \in EnabledIdx(cfg) }

\* -------------------------------------------------------------- aggregator

\* snapshotInfo of a new key: zero Time, zero Count
NewInfo(hostname, username) ==
    [Host |-> hostname, Username |-> username, Time |-> 0, Count |-> 0]

\* fmt.Sprintf("%s-%s", hostname, username)
Key(hostname, username) == hostname \o "-" \o username

\* the username is keyed as it came
OwnerAsGiven(username) == username

\* Add, lines 125-127: if username == "" { username = "UNKNOWN" }
Owner(username) == IF username = "" THEN "UNKNOWN" ELSE username

\* time.Duration.Hours() / 24, time.Time in hours
HoursPerDay == 24

\* int(x) of a float64 quotient a / b, b > 0: the fraction is dropped, toward zero
TruncDiv(a, b) == IF a >= 0 THEN a \div b ELSE -((-a) \div b)

\* the quotient rounded to the nearest whole day
DayAgeRounded(i, at) == ((at - i.Time) + 12) \div HoursPerDay

\* snapshotInfo.DayAge: int(now.Sub(i.Time).Hours() / 24)
DayAge(i, at) == TruncDiv(at - i.Time, HoursPerDay)

\* IsLegacy's threshold, in days
LegacyDays == 60

\* snapshotInfo.IsLegacy, at the time.Now() of the call
IsLegacy(i, at) == DayAge(i, at) > LegacyDays

\* SnapshotCollection.Add: a collection is a function key -> snapshotInfo
Add(c, username, hostname, snapshotTime) ==
    LET user == Owner(username)
        key  == Key(hostname, user)
        val  == IF key \in DOMAIN c THEN c[key] ELSE NewInfo(hostname, user)
        upd  == [val EXCEPT !.Time  = IF val.Time < snapshotTime
                                        THEN snapshotTime ELSE val.Time,
                            !.Count = val.Count + 1]
    IN  [k \in DOMAIN c \cup {key} |-> IF k = key THEN upd ELSE c[k]]

\* the elements of a slice, and the values of a map
SeqSet(seq) == { seq[k] : k \in 1..Len(seq) }

Values(map) == { map[k] : k \in DOMAIN map }

\* the empty SnapshotCollection{}
EmptyCollection == [k \in {} |-> NewInfo("", "")]

Snap(username, hostname, t) == [Username |-> username, Hostname |-> hostname, Time |-> t]

\* The host names, user names and times a snapshot can carry.
Hosts == {"h", "h-x"}
Owners == {"", "u", "x-u", "UNKNOWN", "x-UNKNOWN"}
Times == 1..MaxTime

\* The snapshots each repository holds (what restic.ForAllSnapshots yields).
RepoSnapshots(repo) ==
    IF repo = "R1" THEN <<Snap("u1", "h1", 1), Snap("u1", "h1", 2)>>
                   ELSE <<Snap("", "h1", 1)>>

RECURSIVE AddAll(_, _, _)
AddAll(c, snaps, n) ==
    IF n = 0 THEN c
    ELSE LET p == AddAll(c, snaps, n - 1)
         IN  Add(p, snaps[n].Username, snaps[n].Hostname, snaps[n].Time)

\* collectionFromAllSnapshots: the callback adds each snapshot until one
\* arrives with an error (failAt = its position, 0 for none); returns the
\* collection built so far together with the error.
collectionFromAllSnapshots(snaps, failAt) ==
    IF failAt = 0
    THEN [col |-> AddAll(EmptyCollection, snaps, Len(snaps)), err |-> FALSE]
    ELSE [col |-> AddAll(EmptyCollection, snaps, failAt - 1), err |-> TRUE]

\* ------------------------------------------------------------------- state

VARIABLES
    mainpc,      \* position of main()
    ctxDone,     \* cancelMain() was called
    schedOn,     \* between sched.Start() and sched.Shutdown()
    http,        \* the HTTP server: "off", "serving", "closed"
    crashed,     \* a goroutine panicked: the process is gone
    config,      \* ResticCollector.config (atomic pointer to a ConfigFile)
    metrics,     \* ResticCollector.metrics (atomic pointer to allRepoMetrics)
    mutex,       \* ResticCollector's embedded sync.Mutex: TRUE when locked
    wait,        \* ResticCollector.wait: the WaitGroup counter
    run,         \* one record per call of GatherMetrics
    done,        \* the done channel of each call
    task,        \* one record per gatherOne goroutine
    now,         \* the wall clock (time.Now), in hours; it stands still in Spec
    sc,          \* main's secrets client: "nil" when Vault is disabled, else "vault"
    col,         \* a SnapshotCollection under construction (collectionFromAllSnapshots)
    calls,       \* the snapshots it was given so far, in order
    scrape       \* a scrape: Collect's position, its locals and what it emitted

vars == <<mainpc, ctxDone, schedOn, http, crashed, config, metrics,
          mutex, wait, run, done, task, now, sc, col, calls, scrape>>

\* A gatherOne goroutine (IdleTask below): its position, its repository, its
\* deferred calls, its locals err and col, what its open returned, whether it
\* holds the repository lock, and counts of its Unlock calls and sends.

\* A call of GatherMetrics: its position, who called, its locals (cfg,
\* started, metrics), and two observations of it: the list that was current
\* when it took the mutex (lockCfg) and how often it stored the metrics.
IdleRun ==
    [pc |-> "idle", origin |-> Nil, busy |-> FALSE, lockCfg |-> <<>>, cfg |-> <<>>,
     started |-> 0, metrics |-> NilPtr, publishes |-> 0]

\* Collect: its position, its locals now and metrics, the samples it has sent
\* on ch, and, of the scrape that finished before it, the pointer that one
\* had loaded (of) and the samples it had sent (last).
IdleScrape ==
    [pc |-> "idle", now |-> 0, metrics |-> NilPtr, out |-> {},
     of |-> NilPtr, last |-> {}]

IdleTask ==
    [pc |-> "none", repo |-> Nil, defers |-> <<>>, open |-> Nil, held |-> FALSE,
     unlocks |-> 0, sent |-> 0, err |-> FALSE, col |-> EmptyCollection]

\* NewResticCollector and main's own variables before anything runs: no call,
\* no goroutine, nothing published, no scrape
Constructed ==
    /\ ctxDone = FALSE
    /\ schedOn = FALSE
    /\ http = "off"
    /\ crashed = FALSE
    /\ metrics = NilPtr
    /\ mutex = FALSE
    /\ wait = 0
    /\ run = [r \in Runs |-> IdleRun]
    /\ done = [r \in Runs |-> <<>>]
    /\ task = [t \in TaskIds |-> IdleTask]
    /\ scrape = IdleScrape

\* main up to line 84: the collector is made, the first ReloadConfig has
\* stored one of the lists cfgs, the scheduler has its job and is not started
Start(cfgs) ==
    /\ Constructed
    /\ mainpc = "sched.Start"
    /\ config \in cfgs
    /\ now = 0
    /\ sc = "vault"
    /\ col = EmptyCollection
    /\ calls = <<>>

Init == Start(ConfigFiles)

\* the process is running: main has not returned and nothing panicked
Alive == ~crashed /\ mainpc # "exited"


\* ------------------------------------------------------- ResticCollector

\* a TryLock that never fails
TryLockAlways(m) == TRUE

\* sync.Mutex.TryLock: succeeds iff the mutex is free
TryLock(m) == ~m

\* GatherMetrics has returned: its locals are gone.  A goroutine's call is
\* over; main's own call stays "done" until main goes on.
Returned(rec) ==
    IF rec.origin = "startup"
      THEN [IdleRun EXCEPT !.pc = "done", !.origin = rec.origin, !.busy = rec.busy]
      ELSE IdleRun

\* the return after the log line left out: the call goes on without the mutex
BusyFallsThrough(rec) == [rec EXCEPT !.pc = "Load", !.busy = TRUE]

\* GatherMetrics when TryLock fails: it logs and returns
Busy(rec) == Returned([rec EXCEPT !.busy = TRUE])

\* the list returned with an error is stored all the same
ReloadConfigStoresAnyway(old, found, client) ==
    LET l == NewConfigFileFromFile(found.file, client, found.vault)
    IN  [config |-> l.cfg, err |-> l.err]

\* ReloadConfig: store the new list only when the load had no error; the
\* error is returned
ReloadConfig(old, found, client) ==
    LET l == NewConfigFileFromFile(found.file, client, found.vault)
    IN  [config |-> IF l.err THEN old ELSE l.cfg, err |-> l.err]

\* the goroutines a call started are gone
NoTasks(r) == \A t \in TaskIds : t[1] = r => task[t].pc = "none"

FreeRuns == { r \in Runs : run[r].pc = "idle" /\ NoTasks(r) }

NextRun == CHOOSE r \in FreeRuns : \A q \in FreeRuns : r <= q

StartupCalled == mainpc \notin {"sched.Start", "GatherMetrics"}

\* a trigger takes a call record only if one stays free for main's own call
CanTrigger == Cardinality(FreeRuns) > (IF StartupCalled THEN 0 ELSE 1)

\* a new call of GatherMetrics, about to execute its first statement
Call(origin) ==
    run' = [run EXCEPT ![NextRun] = [IdleRun EXCEPT !.pc = "TryLock", !.origin = origin]]

\* GatherMetrics, line 241: if !c.TryLock() { log; return }; defer c.Unlock()
GatherMetrics_TryLock(r) ==
    /\ Alive
    /\ run[r].pc = "TryLock"
    /\ IF TryLock(mutex)
         THEN /\ mutex' = TRUE
              /\ run' = [run EXCEPT ![r].pc = "Load", ![r].lockCfg = config]
         ELSE /\ run' = [run EXCEPT ![r] = Busy(run[r])]
              /\ UNCHANGED mutex
    /\ UNCHANGED <<mainpc, ctxDone, schedOn, http, crashed, config,
                   metrics, wait, done, task, now, sc, col, calls, scrape>>

\* GatherMetrics, lines 247-262: cfg := *c.config.Load(); make the channel;
\* start one goroutine per non-disabled entry; make the local metrics value
GatherMetrics_Load(r) ==
    /\ Alive
    /\ run[r].pc = "Load"
    /\ LET cfg == config
       IN  /\ run' = [run EXCEPT ![r].pc = "Recv",
                                 ![r].cfg = cfg,
                                 ![r].started = Cardinality(EnabledIdx(cfg)),
                                 ![r].metrics = Ptr([Time |-> 0, Errors |-> 0, Stats |-> <<>>])]
           /\ task' = [t \in TaskIds |->
                         IF t[1] = r /\ t[2] \in EnabledIdx(cfg)
                           THEN [IdleTask EXCEPT !.pc = "spawned", !.repo = cfg[t[2]].Repo]
                           ELSE task[t]]
    /\ done' = [done EXCEPT ![r] = <<>>]
    /\ UNCHANGED <<mainpc, ctxDone, schedOn, http, crashed, config,
                   metrics, mutex, wait, now, sc, col, calls, scrape>>

\* the error count is left alone
CountNoError(errors, stats) == errors

\* GatherMetrics, lines 271-273: if stats.ReadErrors > 0 { metrics.Errors += 1 }
CountError(errors, stats) == IF stats.ReadErrors > 0 THEN errors + 1 ELSE errors

\* GatherMetrics, lines 264-282: one iteration of the receive loop; the
\* iteration that makes len(metrics.Stats) == started stores the metrics
GatherMetrics_Recv(r) ==
    /\ Alive
    /\ run[r].pc = "Recv"
    /\ done[r] # <<>>
    /\ LET stats == Head(done[r])
           m1 == [run[r].metrics[1] EXCEPT
                    !.Stats = Append(@, stats),
                    !.Errors = CountError(@, stats)]
       IN  IF Len(m1.Stats) = run[r].started
             THEN LET m2 == [m1 EXCEPT !.Time = now]
                  IN  /\ metrics' = Ptr(m2)
                      /\ run' = [run EXCEPT ![r].pc = "Unlock", ![r].metrics = Ptr(m2),
                                            ![r].publishes = @ + 1]
             ELSE /\ run' = [run EXCEPT ![r].metrics = Ptr(m1)]
                  /\ UNCHANGED metrics
    /\ done' = [done EXCEPT ![r] = Tail(@)]
    /\ UNCHANGED <<mainpc, ctxDone, schedOn, http, crashed, config,
                   mutex, wait, task, now, sc, col, calls, scrape>>

\* GatherMetrics, line 245: the deferred c.Unlock() at return
GatherMetrics_Unlock(r) ==
    /\ Alive
    /\ run[r].pc = "Unlock"
    /\ mutex' = FALSE
    /\ run' = [run EXCEPT ![r] = Returned(run[r])]
    /\ UNCHANGED <<mainpc, ctxDone, schedOn, http, crashed, config,
                   metrics, wait, done, task, now, sc, col, calls, scrape>>

\* ------------------------------------------------------------- gatherOne

\* What openResticBackend can return: an error; a repository with its read
\* lock; or, when repository.Lock fails, a repository with a nil lock and a
\* nil error (restic_backend.go, lines 152-154).
OpenOutcomes == {"err", "ok", "nolock"}

\* repoStats
RepoStats(name, readErrors, stats) ==
    [Name |-> name, ReadErrors |-> readErrors, Stats |-> stats]

\* the failure result sent with the collection built before the error
FailedStatsWithCol(name, partial) == RepoStats(name, 1, partial)

\* gatherOne, lines 225 and 233: repoStats{Name: cfg.Repo, ReadErrors: 1}: the
\* Stats field is not set, whatever collection was built
FailedStats(name, partial) == RepoStats(name, 1, EmptyCollection)

\* the defer of lock.Unlock() left out
DeferNothing(defers) == defers

\* gatherOne, line 228: defer lock.Unlock(), pushed after the open succeeded
DeferUnlock(defers) == Append(defers, "lock.Unlock")

\* the deferred calls run in the order they were deferred: wait.Done first
PopDeferFifo(defers) == [fn |-> Head(defers), rest |-> Tail(defers)]

\* a return runs the deferred calls last-in first-out
PopDefer(defers) ==
    [fn |-> defers[Len(defers)], rest |-> SubSeq(defers, 1, Len(defers) - 1)]

\* sync.WaitGroup.Wait returns when the counter is zero
WaitReturns(w) == w = 0

\* gatherOne, lines 219-220: c.wait.Add(1); defer c.wait.Done()
gatherOne_Add(t) ==
    /\ Alive
    /\ task[t].pc = "spawned"
    /\ wait' = wait + 1
    /\ task' = [task EXCEPT ![t].pc = "open", ![t].defers = <<"wait.Done">>]
    /\ UNCHANGED <<mainpc, ctxDone, schedOn, http, crashed, config,
                   metrics, mutex, run, done, now, sc, col, calls, scrape>>

\* a channel with room for one result
CanSendOne(r) == Len(done[r]) < 1

\* done <- stats: the channel was made with capacity len(cfg)
CanSend(r) == Len(done[r]) < Len(run[r].cfg)

\* a return path that sends nothing
SendNothing(r, stats) == UNCHANGED done

Send(r, stats) == done' = [done EXCEPT ![r] = Append(@, stats)]

\* gatherOne, lines 222-228: openResticBackend and the error check; on an
\* error the task sends repoStats{ReadErrors: 1} and returns
gatherOne_Open(t) ==
    /\ Alive
    /\ task[t].pc = "open"
    /\ \E o \in OpenOutcomes :
         IF o = "err"
           THEN /\ CanSend(t[1])
                /\ Send(t[1], FailedStats(task[t].repo, task[t].col))
                /\ task' = [task EXCEPT ![t].pc = "return", ![t].open = o,
                                        ![t].err = TRUE, ![t].sent = @ + 1]
           ELSE /\ task' = [task EXCEPT ![t].pc = "enum", ![t].open = o,
                                        ![t].held = (o = "ok"),
                                        ![t].defers = DeferUnlock(@)]
                /\ UNCHANGED done
    /\ UNCHANGED <<mainpc, ctxDone, schedOn, http, crashed, config,
                   metrics, mutex, wait, run, now, sc, col, calls, scrape>>

\* gatherOne, lines 230-237: collectionFromAllSnapshots, the error check and
\* the send of the result: ReadErrors 1 and no Stats on an error, the
\* collection otherwise
gatherOne_Enum(t) ==
    /\ Alive
    /\ task[t].pc = "enum"
    /\ CanSend(t[1])
    /\ \E failAt \in 0..Len(RepoSnapshots(task[t].repo)) :
         LET c == collectionFromAllSnapshots(RepoSnapshots(task[t].repo), failAt)
         IN  /\ Send(t[1], IF c.err THEN FailedStats(task[t].repo, c.col)
                                     ELSE RepoStats(task[t].repo, 0, c.col))
             /\ task' = [task EXCEPT ![t].pc = "return", ![t].err = c.err,
                                     ![t].col = c.col, ![t].sent = @ + 1]
    /\ UNCHANGED <<mainpc, ctxDone, schedOn, http, crashed, config,
                   metrics, mutex, wait, run, now, sc, col, calls, scrape>>

\* the goroutine has run its last deferred call and is gone; a lock it still
\* holds stays held
Exited(rec) == [IdleTask EXCEPT !.held = rec.held]

\* gatherOne returning: one deferred call per step.  Unlock on the nil lock
\* of a "nolock" open dereferences nil inside restic: the build either
\* panics there or returns.
gatherOne_Return(t) ==
    /\ Alive
    /\ task[t].pc = "return"
    /\ task[t].defers # <<>>
    /\ LET d == PopDefer(task[t].defers)
           after(rec) == IF d.rest = <<>> THEN Exited(rec)
                                          ELSE [rec EXCEPT !.defers = d.rest]
       IN  \/ /\ d.fn = "lock.Unlock"
              /\ task[t].open = "ok"
              /\ task' = [task EXCEPT ![t] = after([@ EXCEPT !.held = FALSE,
                                                             !.unlocks = @ + 1])]
              /\ UNCHANGED <<wait, crashed>>
           \/ /\ d.fn = "lock.Unlock"
              /\ task[t].open = "nolock"
              /\ task' = [task EXCEPT ![t] = after([@ EXCEPT !.unlocks = @ + 1])]
              /\ crashed' \in {TRUE, FALSE}
              /\ UNCHANGED wait
           \/ /\ d.fn = "wait.Done"
              /\ wait' = wait - 1
              /\ task' = [task EXCEPT ![t] = after(@)]
              /\ UNCHANGED crashed
    /\ UNCHANGED <<mainpc, ctxDone, schedOn, http, config,
                   metrics, mutex, run, done, now, sc, col, calls, scrape>>

\* ------------------------------------------------------------------ main

\* main, lines 64-66: the first ReloadConfig; logger.Fatal on an error ends
\* the process
main_ReloadConfig ==
    /\ Alive
    /\ mainpc = "ReloadConfig"
    /\ \E found \in LoadStates :
         LET rc == ReloadConfig(config, found, sc)
         IN  /\ config' = rc.config
             /\ mainpc' = IF rc.err THEN "exited" ELSE "sched.Start"
    /\ UNCHANGED <<ctxDone, schedOn, http, crashed, metrics, mutex,
                   wait, run, done, task, now, sc, col, calls, scrape>>

\* main, line 86: sched.Start()
main_SchedStart ==
    /\ Alive
    /\ mainpc = "sched.Start"
    /\ schedOn' = TRUE
    /\ mainpc' = "GatherMetrics"
    /\ UNCHANGED <<ctxDone, http, crashed, config, metrics, mutex,
                   wait, run, done, task, now, sc, col, calls, scrape>>

\* main, line 89: collector.GatherMetrics(ctx), called synchronously
main_GatherMetrics ==
    /\ Alive
    /\ mainpc = "GatherMetrics"
    /\ Call("startup")
    /\ mainpc' = "gathering"
    /\ UNCHANGED <<ctxDone, schedOn, http, crashed, config, metrics,
                   mutex, wait, done, task, now, sc, col, calls, scrape>>

\* main, lines 92-106: the call returned; go func() { ListenAndServe }
main_ListenAndServe ==
    /\ Alive
    /\ mainpc = "gathering"
    /\ \E r \in Runs :
         /\ run[r].origin = "startup" /\ run[r].pc = "done"
         /\ run' = [run EXCEPT ![r] = IdleRun]
    /\ http' = "serving"
    /\ mainpc' = "loop"
    /\ UNCHANGED <<ctxDone, schedOn, crashed, config, metrics, mutex,
                   wait, done, task, now, sc, col, calls, scrape>>

\* main, lines 112-116: SIGHUP: ReloadConfig; an error takes main to the
\* logger.Error call
main_SIGHUP ==
    /\ Alive
    /\ mainpc = "loop"
    /\ \E found \in FileStates :
         LET rc == ReloadConfig(config, found, sc)
         IN  /\ config' = rc.config
             /\ mainpc' = IF rc.err THEN "reload.err" ELSE "loop"
    /\ UNCHANGED <<ctxDone, schedOn, http, crashed, metrics, mutex,
                   wait, run, done, task, now, sc, col, calls, scrape>>

\* main, line 115: the error is logged and main is back at its select
main_LogReloadError ==
    /\ Alive
    /\ mainpc = "reload.err"
    /\ mainpc' = "loop"
    /\ UNCHANGED <<ctxDone, schedOn, http, crashed, config, metrics, mutex,
                   wait, run, done, task, now, sc, col, calls, scrape>>

\* main, lines 117-119: SIGUSR1: go collector.GatherMetrics(ctx)
main_SIGUSR1 ==
    /\ Alive
    /\ mainpc = "loop"
    /\ CanTrigger
    /\ Call("usr1")
    /\ UNCHANGED <<mainpc, ctxDone, schedOn, http, crashed, config,
                   metrics, mutex, wait, done, task, now, sc, col, calls, scrape>>

\* main, lines 120-122: SIGINT: cancelMain()
main_SIGINT ==
    /\ Alive
    /\ mainpc = "loop"
    /\ ~ctxDone
    /\ ctxDone' = TRUE
    /\ UNCHANGED <<mainpc, schedOn, http, crashed, config, metrics,
                   mutex, wait, run, done, task, now, sc, col, calls, scrape>>

\* main, lines 124-130: case <-ctx.Done(): httpServer.Shutdown(shutdownCtx)
main_HttpShutdown ==
    /\ Alive
    /\ mainpc = "loop"
    /\ ctxDone
    /\ http' = "closed"
    /\ mainpc' = "collector.Shutdown"
    /\ UNCHANGED <<ctxDone, schedOn, crashed, config, metrics, mutex,
                   wait, run, done, task, now, sc, col, calls, scrape>>

\* main, line 131: collector.Shutdown(), that is c.wait.Wait()
Shutdown ==
    /\ Alive
    /\ mainpc = "collector.Shutdown"
    /\ WaitReturns(wait)
    /\ mainpc' = "sched.Shutdown"
    /\ UNCHANGED <<ctxDone, schedOn, http, crashed, config, metrics,
                   mutex, wait, run, done, task, now, sc, col, calls, scrape>>

\* main, lines 132-134: sched.Shutdown(); return: the process exits
main_SchedShutdown ==
    /\ Alive
    /\ mainpc = "sched.Shutdown"
    /\ schedOn' = FALSE
    /\ mainpc' = "exited"
    /\ UNCHANGED <<ctxDone, http, crashed, config, metrics, mutex,
                   wait, run, done, task, now, sc, col, calls, scrape>>

\* ------------------------------------------------------------ environment

\* the scheduler's cron job fires: gocron runs the task in a new goroutine
sched_Trigger ==
    /\ Alive
    /\ schedOn
    /\ CanTrigger
    /\ Call("sched")
    /\ UNCHANGED <<mainpc, ctxDone, schedOn, http, crashed, config,
                   metrics, mutex, wait, done, task, now, sc, col, calls, scrape>>

\* Collect, lines 298-337: a scrape reads the metrics pointer and the clock and
\* writes nothing; metrics.Time on a nil pointer panics
Collect ==
    /\ Alive
    /\ http = "serving"
    /\ crashed' = (metrics = NilPtr)
    /\ UNCHANGED <<mainpc, ctxDone, schedOn, http, config, metrics,
                   mutex, wait, run, done, task, now, sc, col, calls, scrape>>

\* prometheus.MustNewConstMetric: a sample of a descriptor with its label
\* values ("" for a label the descriptor does not have) and its value; times
\* are in the model's hours
Sample(name, url, host, user, isLegacy, value) ==
    [name |-> name, url |-> url, host |-> host, user |-> user,
     isLegacy |-> isLegacy, value |-> value]

\* Collect, lines 302-308: lastSuccessTime and jobErrorCount
HeadSamples(m) ==
    { Sample("job_last_success_unixtime", "", "", "", "", m.Time),
      Sample("job_error_count", "", "", "", "", m.Errors) }

\* Collect, lines 316-335: the three samples of one backup set; IsLegacy
\* reads the clock itself (legacyAt), DayAge gets Collect's now (at)
SetSamples(url, set, at, legacyAt) ==
    LET legacy == IF IsLegacy(set, legacyAt) THEN "true" ELSE "false"
    IN  { Sample("snapshot_count", url, set.Host, set.Username, legacy, set.Count),
          Sample("newest_timestamp", url, set.Host, set.Username, legacy, set.Time),
          Sample("days_age", url, set.Host, set.Username, "", DayAge(set, at)) }

\* Collect, lines 310-336: readErrorCount of every repository and the samples
\* of its backup sets
StatsSamples(m, at, legacyAt) ==
    { Sample("read_error_count", st.Name, "", "", "", st.ReadErrors) : st \in SeqSet(m.Stats) }
      \cup UNION { UNION { SetSamples(st.Name, set, at, legacyAt) : set \in Values(st.Stats) }
                   : st \in SeqSet(m.Stats) }

\* the pointer is loaded again for every use
LoadedAgain(local, published) == published

\* Collect uses its local metrics, loaded once at line 300, for all it sends
Loaded(local, published) == local

\* Load replaced by a swap that takes the published run away
Collect_LoadTakes ==
    /\ Alive
    /\ http = "serving"
    /\ scrape.pc = "idle"
    /\ scrape' = [scrape EXCEPT !.pc = "loaded", !.now = now, !.metrics = metrics,
                                !.out = {}, !.of = scrape.metrics, !.last = scrape.out]
    /\ metrics' = NilPtr
    /\ UNCHANGED <<mainpc, ctxDone, schedOn, http, crashed, config,
                   mutex, wait, run, done, task, now, sc, col, calls>>

\* Collect, lines 299-300: now := time.Now(); metrics := c.metrics.Load()
Collect_Load ==
    /\ Alive
    /\ http = "serving"
    /\ scrape.pc = "idle"
    /\ scrape' = [scrape EXCEPT !.pc = "loaded", !.now = now, !.metrics = metrics,
                                !.out = {}, !.of = scrape.metrics, !.last = scrape.out]
    /\ UNCHANGED <<mainpc, ctxDone, schedOn, http, crashed, config, metrics,
                   mutex, wait, run, done, task, now, sc, col, calls>>

\* Collect, lines 302-308: metrics.Time on a nil pointer panics; otherwise
\* the two job samples are sent
Collect_Head ==
    /\ Alive
    /\ scrape.pc = "loaded"
    /\ IF Loaded(scrape.metrics, metrics) = NilPtr
         THEN /\ crashed' = TRUE
              /\ UNCHANGED scrape
         ELSE /\ scrape' = [scrape EXCEPT
                              !.pc = "stats",
                              !.out = HeadSamples(Loaded(scrape.metrics, metrics)[1])]
              /\ UNCHANGED crashed
    /\ UNCHANGED <<mainpc, ctxDone, schedOn, http, config, metrics,
                   mutex, wait, run, done, task, now, sc, col, calls>>

\* Collect, lines 310-337: the loop over metrics.Stats, then the return
Collect_Stats ==
    /\ Alive
    /\ scrape.pc = "stats"
    /\ Loaded(scrape.metrics, metrics) # NilPtr
    /\ scrape' = [scrape EXCEPT
                    !.pc = "idle",
                    !.out = @ \cup StatsSamples(Loaded(scrape.metrics, metrics)[1],
                                                scrape.now, now)]
    /\ UNCHANGED <<mainpc, ctxDone, schedOn, http, crashed, config, metrics,
                   mutex, wait, run, done, task, now, sc, col, calls>>

\* a day passes on the wall clock
TickDay ==
    /\ now + HoursPerDay <= MaxAge
    /\ now' = now + HoursPerDay
    /\ UNCHANGED <<mainpc, ctxDone, schedOn, http, crashed, config, metrics,
                   mutex, wait, run, done, task, sc, col, calls, scrape>>

\* --------------------------------------------------------- specification

Next ==
    \/ main_SchedStart
    \/ main_GatherMetrics
    \/ main_ListenAndServe
    \/ main_SIGHUP
    \/ main_LogReloadError
    \/ main_SIGUSR1
    \/ main_SIGINT
    \/ main_HttpShutdown
    \/ Shutdown
    \/ main_SchedShutdown
    \/ sched_Trigger
    \/ Collect
    \/ \E r \in Runs : GatherMetrics_TryLock(r)
    \/ \E r \in Runs : GatherMetrics_Load(r)
    \/ \E r \in Runs : GatherMetrics_Recv(r)
    \/ \E r \in Runs : GatherMetrics_Unlock(r)
    \/ \E t \in TaskIds : gatherOne_Add(t)
    \/ \E t \in TaskIds : gatherOne_Open(t)
    \/ \E t \in TaskIds : gatherOne_Enum(t)
    \/ \E t \in TaskIds : gatherOne_Return(t)

Spec == Init /\ [][Next]_vars

\* The start-up collection alone, over a list with two enabled repositories:
\* one call of GatherMetrics and its two tasks, in every interleaving.
InitFan == Start(FanConfigs)

NextFan ==
    \/ main_SchedStart
    \/ main_GatherMetrics
    \/ main_ListenAndServe
    \/ \E r \in Runs : GatherMetrics_TryLock(r)
    \/ \E r \in Runs : GatherMetrics_Load(r)
    \/ \E r \in Runs : GatherMetrics_Recv(r)
    \/ \E r \in Runs : GatherMetrics_Unlock(r)
    \/ \E t \in TaskIds : gatherOne_Add(t)
    \/ \E t \in TaskIds : gatherOne_Open(t)
    \/ \E t \in TaskIds : gatherOne_Enum(t)
    \/ \E t \in TaskIds : gatherOne_Return(t)

SpecFan == InitFan /\ [][NextFan]_vars

\* The same with the Go scheduler's fairness: a goroutine that can take its
\* next step, main, a GatherMetrics call or a gatherOne task, takes it.
FairFan ==
    /\ WF_vars(main_SchedStart)
    /\ WF_vars(main_GatherMetrics)
    /\ WF_vars(main_ListenAndServe)
    /\ \A r \in Runs : /\ WF_vars(GatherMetrics_TryLock(r))
                       /\ WF_vars(GatherMetrics_Load(r))
                       /\ WF_vars(GatherMetrics_Recv(r))
                       /\ WF_vars(GatherMetrics_Unlock(r))
    /\ \A t \in TaskIds : /\ WF_vars(gatherOne_Add(t))
                          /\ WF_vars(gatherOne_Open(t))
                          /\ WF_vars(gatherOne_Enum(t))
                          /\ WF_vars(gatherOne_Return(t))

SpecFanFair == InitFan /\ [][NextFan]_vars /\ FairFan

\* The same where only the tasks, and the call up to its spawn loop, are
\* sure to run: the call may stay away from its receive for ever.
FairTasks ==
    /\ WF_vars(main_SchedStart)
    /\ WF_vars(main_GatherMetrics)
    /\ \A r \in Runs : /\ WF_vars(GatherMetrics_TryLock(r))
                       /\ WF_vars(GatherMetrics_Load(r))
    /\ \A t \in TaskIds : /\ WF_vars(gatherOne_Add(t))
                          /\ WF_vars(gatherOne_Open(t))
                          /\ WF_vars(gatherOne_Enum(t))
                          /\ WF_vars(gatherOne_Return(t))

SpecFanTasks == InitFan /\ [][NextFan]_vars /\ FairTasks

\* One SnapshotCollection and up to MaxAdds snapshots added to it, of every
\* host, user and time.
InitAdd == Start({<<>>})

\* collectionFromAllSnapshots, line 167: col.Add(sn.Username, sn.Hostname, sn.Time)
collectionFromAllSnapshots_Add ==
    /\ Len(calls) < MaxAdds
    /\ \E username \in Owners, hostname \in Hosts, snapshotTime \in Times :
         /\ col' = Add(col, username, hostname, snapshotTime)
         /\ calls' = Append(calls, Snap(username, hostname, snapshotTime))
    /\ UNCHANGED <<mainpc, ctxDone, schedOn, http, crashed, config, metrics,
                   mutex, wait, run, done, task, now, sc, scrape>>

NextAdd == collectionFromAllSnapshots_Add

SpecAdd == InitAdd /\ [][NextAdd]_vars

\* One backup set, of every snapshot time, and the clock from MaxAge hours
\* before the earliest time to MaxAge hours after the latest.
InitDayAge ==
    /\ Constructed
    /\ mainpc = "sched.Start"
    /\ config = <<>>
    /\ now = 1 - MaxAge
    /\ sc = "vault"
    /\ \E snapshotTime \in Times : col = Add(EmptyCollection, "u", "h", snapshotTime)
    /\ calls = <<>>

\* an hour passes on the wall clock
Tick ==
    /\ now < MaxTime + MaxAge
    /\ now' = now + 1
    /\ UNCHANGED <<mainpc, ctxDone, schedOn, http, crashed, config, metrics,
                   mutex, wait, run, done, task, sc, col, calls, scrape>>

NextDayAge == Tick

SpecDayAge == InitDayAge /\ [][NextDayAge]_vars

\* Scrapes while the start-up collection and the scheduler's collections run
\* and publish, over one list with one enabled repository, as days pass.
ScrapeConfigs == { <<Entry("R1", FALSE), Entry("R2", TRUE)>> }

InitScrape == Start(ScrapeConfigs)

NextScrape ==
    \/ main_SchedStart
    \/ main_GatherMetrics
    \/ main_ListenAndServe
    \/ sched_Trigger
    \/ TickDay
    \/ Collect_Load
    \/ Collect_Head
    \/ Collect_Stats
    \/ \E r \in Runs : GatherMetrics_TryLock(r)
    \/ \E r \in Runs : GatherMetrics_Load(r)
    \/ \E r \in Runs : GatherMetrics_Recv(r)
    \/ \E r \in Runs : GatherMetrics_Unlock(r)
    \/ \E t \in TaskIds : gatherOne_Add(t)
    \/ \E t \in TaskIds : gatherOne_Open(t)
    \/ \E t \in TaskIds : gatherOne_Enum(t)
    \/ \E t \in TaskIds : gatherOne_Return(t)

SpecScrape == InitScrape /\ [][NextScrape]_vars

\* Scrapes of one published run around the hour its backup set turns 61 days
\* old: the server is serving, main waits for a signal, no collection runs.
LegacyHours == (LegacyDays + 1) * HoursPerDay

InitLegacy ==
    /\ ctxDone = FALSE
    /\ schedOn = TRUE
    /\ http = "serving"
    /\ crashed = FALSE
    /\ mutex = FALSE
    /\ wait = 0
    /\ run = [r \in Runs |-> IdleRun]
    /\ done = [r \in Runs |-> <<>>]
    /\ task = [t \in TaskIds |-> IdleTask]
    /\ scrape = IdleScrape
    /\ mainpc = "loop"
    /\ config = <<Entry("R1", FALSE)>>
    /\ \E snapshotTime \in Times :
          metrics = Ptr([Time |-> snapshotTime, Errors |-> 0,
                         Stats |-> <<RepoStats("R1", 0,
                                       Add(EmptyCollection, "u", "h", snapshotTime))>>])
    /\ now = LegacyHours - MaxSkew
    /\ sc = "vault"
    /\ col = EmptyCollection
    /\ calls = <<>>

\* an hour passes on the wall clock, around day 61
HourPasses ==
    /\ now < LegacyHours + MaxTime + MaxSkew
    /\ now' = now + 1
    /\ UNCHANGED <<mainpc, ctxDone, schedOn, http, crashed, config, metrics,
                   mutex, wait, run, done, task, sc, col, calls, scrape>>

NextLegacy ==
    \/ HourPasses
    \/ Collect_Load
    \/ Collect_Head
    \/ Collect_Stats

SpecLegacy == InitLegacy /\ [][NextLegacy]_vars

\* main's first load of the configuration, over every file and Vault of
\* LoadStates, with Vault enabled or disabled.
InitLoad ==
    /\ Constructed
    /\ mainpc = "ReloadConfig"
    /\ config = <<>>
    /\ now = 0
    /\ sc \in {"nil", "vault"}
    /\ col = EmptyCollection
    /\ calls = <<>>

NextLoad == main_ReloadConfig

SpecConfig == InitLoad /\ [][NextLoad]_vars

\* ----------------------------------------------------------------- claims

\* a call that is past the TryLock and before the deferred Unlock has run
InFlight(r) == run[r].pc \in {"Load", "Recv", "Unlock"}

InSeq(x, seq) == \E k \in 1..Len(seq) : seq[k] = x

\* the result of task t that sits in the channel, and the one the call took
Queued(t) == { k \in 1..Len(done[t[1]]) : done[t[1]][k].Name = task[t].repo }

Taken(t) ==
    IF run[t[1]].metrics = NilPtr THEN {}
    ELSE { k \in 1..Len(run[t[1]].metrics[1].Stats) :
             run[t[1]].metrics[1].Stats[k].Name = task[t].repo }

\* the orchestrator has received the result task t sent
Received(t) == task[t].sent > 0 /\ Queued(t) = {}

\* collector.Shutdown() has returned
ShutdownReturned == mainpc \in {"sched.Shutdown", "exited"}

\* main's synchronous startup collection has returned
StartupFinished ==
    /\ StartupCalled
    /\ \A r \in Runs : run[r].origin = "startup" => run[r].pc = "done"

\* the repositories a list enables, read off the list itself
EnabledOf(cfg) == { cfg[i].Repo : i \in { j \in 1..Len(cfg) : cfg[j].Disabled = FALSE } }

NamesOf(stats) == { stats[k].Name : k \in 1..Len(stats) }

\* C1: in every reachable state at most one call of GatherMetrics is in
\* flight, and the mutex is locked whenever one is.
C1_AtMostOneRunInFlight ==
    /\ Cardinality({ r \in Runs : InFlight(r) }) <= 1
    /\ (\E r \in Runs : InFlight(r)) => mutex

\* a call is in flight and main's startup call was turned away by it
C1_Witness ==
    \E r, q \in Runs : r # q /\ InFlight(r) /\ run[q].pc = "done" /\ run[q].busy

\* C2: a call whose TryLock finds the mutex held returns in that step: it
\* starts no task, sends and stores nothing, leaves the mutex and the
\* WaitGroup alone, and its record is over (it is not kept to run later).
C2_BusyTriggerDropped ==
    [][\A r \in Runs :
          (run[r].pc = "TryLock" /\ mutex /\ run'[r] # run[r])
            => /\ run'[r].pc \in {"idle", "done"}
               /\ run'[r].publishes = 0
               /\ metrics' = metrics
               /\ task' = task
               /\ done' = done
               /\ mutex' = mutex
               /\ wait' = wait]_vars

\* main's startup call came back busy: nothing was published, the call has no
\* task, and the call that holds the mutex is still at work
C2_Witness ==
    \E q \in Runs :
        /\ run[q].pc = "done" /\ run[q].busy /\ NoTasks(q)
        /\ metrics = NilPtr
        /\ \E r \in Runs : run[r].pc = "Recv" /\ run[r].publishes = 0

\* C3: once collector.Shutdown() has returned, no task is still going to open
\* a repository and no task holds a repository lock.
C3_ShutdownWaitsForTasks ==
    ShutdownReturned =>
        \A t \in TaskIds : task[t].pc \notin {"spawned", "open"} /\ ~task[t].held

\* C4: the HTTP server serves only when the metrics pointer holds a published
\* run.
C4_ServeOnlyAfterPublish ==
    http = "serving" => metrics # NilPtr

\* C5: no call of GatherMetrics made by the scheduler exists before the
\* startup collection has returned.
C5_NoSchedulerCallBeforeStartup ==
    (\E r \in Runs : run[r].origin = "sched") => StartupFinished

\* C6: a call that holds the mutex and has taken a result from every task it
\* started is not left waiting in the receive loop: it has stored the metrics.
C6_RunPublishesWhenAllReported ==
    \A r \in Runs :
        run[r].pc = "Recv" => Len(run[r].metrics[1].Stats) < run[r].started

\* C7: a task whose open returned an error never calls Unlock; a task whose
\* open returned a lock either still holds it with one Unlock deferred, or has
\* called Unlock once and holds nothing; a task that is gone holds nothing.
C7_ReleaseExactlyOnce ==
    \A t \in TaskIds :
        LET k == task[t]
            pending == { i \in 1..Len(k.defers) : k.defers[i] = "lock.Unlock" }
        IN  /\ k.unlocks <= 1
            /\ k.open = "err" => k.unlocks = 0 /\ pending = {} /\ ~k.held
            /\ k.open = "ok" =>
                 \/ k.held /\ k.unlocks = 0 /\ Cardinality(pending) = 1
                 \/ ~k.held /\ k.unlocks = 1 /\ pending = {}
            /\ k.pc = "none" => ~k.held

\* a task whose enumeration failed after a successful open has released
C7_Witness ==
    \E t \in TaskIds :
        /\ task[t].open = "ok" /\ task[t].unlocks = 1 /\ ~task[t].held
        /\ \E k \in Queued(t) : done[t[1]][k].ReadErrors = 1

\* C8 as claimed: when the orchestrator has received a task's result, the
\* task no longer holds its repository lock.
C8_ReleasedBeforeReport ==
    \A t \in TaskIds : Received(t) => ~task[t].held

\* C8 as amended: a task releases its lock after it sent its result and
\* before its wait.Done: a task that holds a lock still has wait.Done
\* deferred, a task that called Unlock has sent, a task that is gone holds
\* nothing.
C8_ReleasedBeforeWaitDone ==
    \A t \in TaskIds :
        /\ task[t].held => InSeq("wait.Done", task[t].defers)
        /\ task[t].unlocks > 0 => task[t].sent = 1
        /\ task[t].pc = "none" => ~task[t].held

\* the call has returned and given up the mutex; its task has sent, has just
\* released its lock and has wait.Done left to run
C8_Witness ==
    \E t \in TaskIds :
        /\ task[t].open = "ok" /\ task[t].unlocks = 1 /\ ~task[t].held
        /\ task[t].defers = <<"wait.Done">>
        /\ run[t[1]].pc = "idle"

\* C9: no task is started in a step taken after collector.Shutdown() has
\* returned.
C9_NoTaskAfterShutdown ==
    [][ShutdownReturned =>
         \A t \in TaskIds : task[t].pc = "none" => task'[t].pc = "none"]_vars

ResultsOf(t) ==
    { done[t[1]][k] : k \in Queued(t) } \cup
    { run[t[1]].metrics[1].Stats[k] : k \in Taken(t) }

RECURSIVE SumReadErrors(_, _)
SumReadErrors(stats, n) ==
    IF n = 0 THEN 0 ELSE SumReadErrors(stats, n - 1) + stats[n].ReadErrors

\* C11: the published run holds one result per enabled repository of the
\* list, each with ReadErrors 0 or 1, and Errors is their sum; the result a
\* task sent has ReadErrors 1 exactly when its open or its enumeration
\* returned an error.
C11_OneResultPerRepository ==
    /\ metrics # NilPtr =>
          LET m == metrics[1]
          IN  /\ NamesOf(m.Stats) = EnabledOf(config)
              /\ Len(m.Stats) = Cardinality(EnabledOf(config))
              /\ \A k \in 1..Len(m.Stats) : m.Stats[k].ReadErrors \in {0, 1}
              /\ m.Errors = SumReadErrors(m.Stats, Len(m.Stats))
    /\ \A t \in TaskIds :
          (task[t].pc = "return" /\ task[t].sent = 1) =>
              /\ \A s \in ResultsOf(t) :
                    s.ReadErrors = (IF task[t].err THEN 1 ELSE 0)
              /\ run[t[1]].pc = "Recv" => ResultsOf(t) # {}

\* R2 failed to open and reported first, R1 was read: Errors is 1, R2 has
\* ReadErrors 1, R1 has ReadErrors 0 and two snapshots for h1/u1
C11_Witness ==
    /\ metrics # NilPtr
    /\ Len(metrics[1].Stats) = 2
    /\ metrics[1].Errors = 1
    /\ metrics[1].Stats[1] = FailedStats("R2", EmptyCollection)
    /\ metrics[1].Stats[2].Name = "R1"
    /\ metrics[1].Stats[2].ReadErrors = 0
    /\ Key("h1", "u1") \in DOMAIN metrics[1].Stats[2].Stats
    /\ metrics[1].Stats[2].Stats[Key("h1", "u1")].Count = 2

\* every result there is: in a channel, in a call's local metrics, published
AllResults ==
    UNION { SeqSet(done[r]) : r \in Runs }
      \cup UNION { IF run[r].metrics = NilPtr THEN {}
                   ELSE SeqSet(run[r].metrics[1].Stats) : r \in Runs }
      \cup (IF metrics = NilPtr THEN {} ELSE SeqSet(metrics[1].Stats))

\* C12: a result with ReadErrors 1 has no backup set, a result with a backup
\* set has ReadErrors 0; a task whose err is set has sent such a result
\* whatever its col holds.
C12_FailedResultIsEmpty ==
    /\ \A s \in AllResults :
          /\ s.ReadErrors = 1 => DOMAIN s.Stats = {}
          /\ DOMAIN s.Stats # {} => s.ReadErrors = 0
    /\ \A t \in TaskIds :
          (task[t].pc = "return" /\ task[t].err) =>
              \A s \in ResultsOf(t) : DOMAIN s.Stats = {}

\* the enumeration failed after a snapshot was added to col; the result in
\* the channel has ReadErrors 1 and no backup set
C12_Witness ==
    \E t \in TaskIds :
        /\ task[t].pc = "return" /\ task[t].open = "ok" /\ task[t].err
        /\ DOMAIN task[t].col # {}
        /\ \E k \in Queued(t) : done[t[1]][k] = RepoStats(task[t].repo, 1, EmptyCollection)

\* the result published for a repository, if there is one
PublishedFor(ptr, name) ==
    IF ptr = NilPtr THEN {} ELSE { s \in SeqSet(ptr[1].Stats) : s.Name = name }

\* C13: when a run in which a repository failed is published over a run in
\* which that repository was read, the published metrics still hold the
\* backup sets of the earlier run.
C13_FailedRunKeepsLastSuccess ==
    [][\A old \in PublishedFor(metrics, "R1") : \A new \in PublishedFor(metrics', "R1") :
          (metrics' # metrics /\ old.ReadErrors = 0 /\ new.ReadErrors = 1)
            => new.Stats = old.Stats]_vars

\* C14: a reload that fails leaves the list in place and the process
\* running: the step that takes main to its error log changes neither the
\* list nor anything else, main goes from there back to its select, and a
\* call that loads the list meanwhile gets the list that was there before.
C14_FailedReloadKeepsList ==
    [][/\ (mainpc = "loop" /\ mainpc' = "reload.err") =>
             /\ config' = config
             /\ crashed' = crashed
             /\ <<metrics, mutex, wait, run, done, task>>' = <<metrics, mutex, wait, run, done, task>>
       /\ mainpc = "reload.err" =>
             /\ mainpc' \in {"reload.err", "loop"}
             /\ config' = config
             /\ \A r \in Runs :
                   (run[r].pc = "Load" /\ run'[r].pc = "Recv") => run'[r].cfg = config]_vars

\* a reload has failed and a call is about to load the list
C14_Witness ==
    /\ mainpc = "reload.err"
    /\ EnabledOf(config) # {}
    /\ \E r \in Runs : run[r].pc = "Load" /\ run[r].origin = "usr1"

\* C15: a list that main's first load accepted has a password for every
\* entry.
C15_LoadRejectsMissingCredential ==
    mainpc = "sched.Start" => \A i \in 1..Len(config) : config[i].Password # ""

\* the owner a call's snapshot belongs to, and the calls of one (host, owner)
OwnerOf(call) == IF call.Username = "" THEN "UNKNOWN" ELSE call.Username

CallsOf(hostname, owner) ==
    { i \in 1..Len(calls) : calls[i].Hostname = hostname /\ OwnerOf(calls[i]) = owner }

\* C16: after any sequence of Add calls, each (host, owner) that was added
\* has a backup set whose Count is the number of its calls and whose Time is
\* the latest of their times.
C16_CountAndNewestPerSet ==
    \A hostname \in Hosts, owner \in Owners \ {""} :
        CallsOf(hostname, owner) # {} =>
            \E k \in DOMAIN col :
                /\ col[k].Host = hostname /\ col[k].Username = owner
                /\ col[k].Count = Cardinality(CallsOf(hostname, owner))
                /\ \A i \in CallsOf(hostname, owner) : calls[i].Time <= col[k].Time
                /\ \E i \in CallsOf(hostname, owner) : calls[i].Time = col[k].Time

\* C17: after any sequence of Add calls no backup set has an empty user
\* name, and the snapshots of a host added with an empty user name are
\* counted in the backup set that counts the host's snapshots of "UNKNOWN".
C17_EmptyOwnerIsSentinel ==
    /\ \A k \in DOMAIN col : col[k].Username # ""
    /\ \A i \in 1..Len(calls) :
          calls[i].Username = "" =>
              /\ Key(calls[i].Hostname, "UNKNOWN") \in DOMAIN col
              /\ col[Key(calls[i].Hostname, "UNKNOWN")].Count
                    >= Cardinality(CallsOf(calls[i].Hostname, "UNKNOWN"))

\* a snapshot with an empty user name and one of "UNKNOWN", same host, share a
\* backup set with Count 2
C17_Witness ==
    /\ Len(calls) = 2
    /\ calls[1].Username = "" /\ calls[2].Username = "UNKNOWN"
    /\ calls[1].Hostname = "h" /\ calls[2].Hostname = "h"
    /\ DOMAIN col = {Key("h", "UNKNOWN")}
    /\ col[Key("h", "UNKNOWN")].Count = 2
    /\ col[Key("h", "UNKNOWN")].Username = "UNKNOWN"

\* C18: for a backup set with a fixed Time, DayAge does not decrease as now
\* advances, before the Time as well as after it; it is 0 at the Time itself
\* and for every age under 24 hours, and 1 at 25 hours.
C18_DayAgeTruncates ==
    \A k \in DOMAIN col :
        LET i == col[k]
        IN  /\ \A before \in (1 - MaxAge)..now : DayAge(i, before) <= DayAge(i, now)
            /\ DayAge(i, i.Time) = 0
            /\ (now - i.Time) \in 0..(HoursPerDay - 1) => DayAge(i, now) = 0
            /\ now - i.Time = HoursPerDay + 1 => DayAge(i, now) = 1

\* the clock is 25 hours past the backup set's Time and DayAge is 1
C18_Witness ==
    \E k \in DOMAIN col :
        /\ now = col[k].Time + HoursPerDay + 1
        /\ DayAge(col[k], now) = 1
        /\ DayAge(col[k], 1 - MaxAge) < 0

\* what a scrape's samples say of every backup set, whatever the isLegacy label
PerSet(samples, names) ==
    { [name |-> x.name, url |-> x.url, host |-> x.host, user |-> x.user,
       value |-> x.value] : x \in { y \in samples : y.name \in names } }

\* a step of Collect
ScrapeStep == scrape' # scrape

\* the step with which Collect returns
ScrapeReturns == scrape.pc = "stats" /\ scrape'.pc = "idle"

\* C19: a step of Collect changes neither the published run nor the
\* configuration nor anything of a collection in progress; a scrape that
\* loaded the pointer the scrape before it had loaded sends the same
\* snapshot_count and newest_timestamp values for every backup set; the
\* days_age values it sends are the DayAge of the sets at the clock value
\* Collect read when it began.
C19_ScrapeMutatesNothing ==
    [][ /\ ScrapeStep =>
              /\ metrics' = metrics
              /\ config' = config
              /\ <<mutex, wait, run, done, task>>' = <<mutex, wait, run, done, task>>
        /\ (ScrapeReturns /\ scrape.last # {} /\ scrape.of = scrape.metrics) =>
              PerSet(scrape'.out, {"snapshot_count", "newest_timestamp"})
                  = PerSet(scrape.last, {"snapshot_count", "newest_timestamp"})
        /\ ScrapeReturns =>
              /\ scrape.metrics # NilPtr
              /\ PerSet(scrape'.out, {"days_age"})
                  = UNION { { [name |-> "days_age", url |-> st.Name, host |-> set.Host,
                                user |-> set.Username, value |-> DayAge(set, scrape.now)]
                               : set \in Values(st.Stats) }
                            : st \in SeqSet(scrape.metrics[1].Stats) }
      ]_vars

\* two scrapes of one published run, a day apart: the same snapshot_count
\* and newest_timestamp, another days_age
C19_Witness ==
    /\ scrape.pc = "idle"
    /\ scrape.last # {}
    /\ scrape.of = scrape.metrics
    /\ metrics = scrape.metrics
    /\ \E x \in scrape.out : x.name = "snapshot_count" /\ x.value = 2
    /\ PerSet(scrape.out, {"snapshot_count", "newest_timestamp"})
          = PerSet(scrape.last, {"snapshot_count", "newest_timestamp"})
    /\ \E x \in scrape.out : x.name = "days_age" /\ x.value = 1
    /\ \E x \in scrape.last : x.name = "days_age" /\ x.value = 0

\* a published run is whole: one result per enabled repository
Whole(m) ==
    /\ NamesOf(m.Stats) = EnabledOf(config)
    /\ Len(m.Stats) = Cardinality(EnabledOf(config))

\* C20: once a run is published a scrape can begin, a run holding the mutex
\* or not; the pointer it loads is the published one, a publish while it
\* goes on does not change what it has loaded, and what it has sent when it
\* returns are the samples of that one run, which is whole.
C20_ScrapeSeesOnePublishedRun ==
    [][ /\ (Alive /\ http = "serving" /\ metrics # NilPtr /\ scrape.pc = "idle") =>
              ENABLED Collect_Load
        /\ (scrape.pc = "idle" /\ scrape'.pc = "loaded") => scrape'.metrics = metrics
        /\ (scrape.pc # "idle" /\ scrape'.pc # "idle") => scrape'.metrics = scrape.metrics
        /\ (scrape.pc # "idle" /\ scrape.metrics # NilPtr) => Whole(scrape.metrics[1])
        /\ ScrapeReturns =>
              /\ scrape.metrics # NilPtr
              /\ \E legacyAt \in scrape.now..now :
                  scrape'.out = HeadSamples(scrape.metrics[1])
                                  \cup StatsSamples(scrape.metrics[1], scrape.now, legacyAt)
      ]_vars

\* a scrape loaded one run while another run held the mutex, that run
\* published before the scrape went on, and the scrape returned the samples of
\* the run it had loaded
C20_Witness ==
    /\ scrape.pc = "idle"
    /\ scrape.out # {}
    /\ metrics # scrape.metrics
    /\ mutex
    /\ scrape.out = HeadSamples(scrape.metrics[1])
                      \cup StatsSamples(scrape.metrics[1], scrape.now, now)
    /\ scrape.out # HeadSamples(metrics[1]) \cup StatsSamples(metrics[1], scrape.now, now)

\* the (host, owner) pairs of the Add calls so far
PairsAdded == { <<calls[i].Hostname, OwnerOf(calls[i])>> : i \in 1..Len(calls) }

\* C21: after any sequence of Add calls the collection has one backup set for
\* each (host, owner) pair that was added, and that set carries the pair:
\* calls of different pairs never share a record.
C21_DistinctPairsDistinctSets ==
    /\ Cardinality(DOMAIN col) = Cardinality(PairsAdded)
    /\ \A i \in 1..Len(calls) :
          LET set == col[Key(calls[i].Hostname, OwnerOf(calls[i]))]
          IN  set.Host = calls[i].Hostname /\ set.Username = OwnerOf(calls[i])

\* the repositories a list has switched off
DisabledOf(cfg) == { cfg[i].Repo : i \in { j \in 1..Len(cfg) : cfg[j].Disabled } }

\* the step in which call r loads the list and spawns its tasks
Spawns(r) == run[r].pc = "Load" /\ run'[r].pc = "Recv"

\* C22: the step that loads the list spawns a task for each entry that is
\* not disabled, with that entry's repository, and for no other; started is
\* their number; while the call goes on no task of it works on a disabled
\* repository, and no result in its channel, in its metrics or in what it
\* publishes is of one.
C22_OneTaskPerEnabledEntry ==
    [][ \A r \in Runs :
          /\ Spawns(r) =>
                /\ \A i \in 1..MaxEntries :
                      IF i \in 1..Len(run'[r].cfg) /\ ~run'[r].cfg[i].Disabled
                        THEN /\ task'[<<r, i>>].pc = "spawned"
                             /\ task'[<<r, i>>].repo = run'[r].cfg[i].Repo
                        ELSE task'[<<r, i>>].pc = "none"
                /\ run'[r].started = Cardinality(EnabledOf(run'[r].cfg))
          /\ run[r].pc \in {"Recv", "Unlock"} =>
                /\ \A i \in 1..MaxEntries :
                      task[<<r, i>>].pc # "none" =>
                          /\ i \in 1..Len(run[r].cfg)
                          /\ ~run[r].cfg[i].Disabled
                          /\ task[<<r, i>>].repo = run[r].cfg[i].Repo
                /\ NamesOf(done[r]) \cap DisabledOf(run[r].cfg) = {}
                /\ NamesOf(run[r].metrics[1].Stats) \cap DisabledOf(run[r].cfg) = {}
          /\ (run[r].pc = "Recv" /\ run'[r].pc = "Unlock") =>
                /\ metrics' = run'[r].metrics
                /\ NamesOf(metrics'[1].Stats) = EnabledOf(run[r].cfg)
      ]_vars

\* a call over a list with R1 and a disabled R2 has published: one result,
\* of R1, and the task slot of R2 was never used
C22_Witness ==
    \E r \in Runs :
        /\ run[r].pc = "Unlock"
        /\ Len(run[r].cfg) = 2
        /\ ~run[r].cfg[1].Disabled /\ run[r].cfg[2].Disabled
        /\ run[r].started = 1
        /\ metrics = run[r].metrics
        /\ NamesOf(metrics[1].Stats) = {"R1"}
        /\ task[<<r, 2>>] = IdleTask

\* C23: a task that is past openResticBackend without an error holds the
\* repository's read lock: a lock that could not be taken is an error, and
\* the task sends ReadErrors 1 for it.
C23_OpenWithoutErrorHoldsLock ==
    \A t \in TaskIds :
        /\ task[t].pc = "enum" => task[t].held /\ task[t].open = "ok"
        /\ (task[t].pc = "return" /\ task[t].open = "nolock") => task[t].err

\* C24: in what a scrape has sent, a backup set's snapshot_count and
\* newest_timestamp carry isLegacy "true" exactly when the days_age sent for
\* the same set is greater than 60.
C24_LegacyLabelIsDayAgeOver60 ==
    scrape.pc = "idle" =>
        \A x \in scrape.out :
            x.name \in {"snapshot_count", "newest_timestamp"} =>
                \E y \in scrape.out :
                    /\ y.name = "days_age"
                    /\ y.url = x.url /\ y.host = x.host /\ y.user = x.user
                    /\ (x.isLegacy = "true") = (y.value > LegacyDays)

\* len(metrics.Stats) of call r
ReceivedBy(r) == IF run[r].metrics = NilPtr THEN 0 ELSE Len(run[r].metrics[1].Stats)

\* call r is between its spawn loop and its return
Collecting(r) == run[r].pc \in {"Recv", "Unlock"}

\* C25: a task has sent nothing before its open and its enumeration are
\* decided and exactly one result when it returns, on every path; a call
\* never has more results, received and queued together, than tasks it
\* started; and while the process runs, a call that has spawned its tasks
\* comes to have received as many results as it started tasks.
C25_OneResultPerTask ==
    /\ [](\A t \in TaskIds :
            /\ task[t].pc \in {"spawned", "open", "enum"} => task[t].sent = 0
            /\ task[t].pc = "return" => task[t].sent = 1)
    /\ [](\A r \in Runs :
            Collecting(r) => ReceivedBy(r) + Len(done[r]) <= run[r].started)
    /\ \A r \in Runs :
          (run[r].pc = "Recv") ~> (crashed \/ (Collecting(r) /\ ReceivedBy(r) = run[r].started))

\* a call has received the results of its two tasks, one of a failure and
\* one of a success, and its channel is empty
C25_Witness ==
    \E r \in Runs :
        /\ run[r].pc = "Unlock"
        /\ run[r].started = 2
        /\ ReceivedBy(r) = 2
        /\ done[r] = <<>>
        /\ \E k \in 1..2 : run[r].metrics[1].Stats[k].ReadErrors = 1
        /\ \E k \in 1..2 : run[r].metrics[1].Stats[k].ReadErrors = 0

\* cap(done) of call r: make(chan repoStats, len(cfg))
Capacity(r) == Len(run[r].cfg)

\* C26: the channel of a call has room for at least as many results as the
\* call started tasks; a task that has yet to send finds room in it; and,
\* the call receiving or not, every spawned task comes to return with its
\* deferred calls run and no lock held (while the process runs).
C26_SendNeverBlocks ==
    /\ [](\A r \in Runs : Collecting(r) => Capacity(r) >= run[r].started)
    /\ [](\A t \in TaskIds :
            task[t].pc \in {"spawned", "open", "enum"} => Len(done[t[1]]) < Capacity(t[1]))
    /\ \A t \in TaskIds :
          (task[t].pc = "spawned") ~> (crashed \/ (task[t].pc = "none" /\ ~task[t].held))

\* both tasks of a call have sent and returned, no lock is held, and the
\* call has received nothing yet
C26_Witness ==
    \E r \in Runs :
        /\ run[r].pc = "Recv"
        /\ run[r].started = 2
        /\ ReceivedBy(r) = 0
        /\ Len(done[r]) = 2
        /\ \A i \in 1..MaxEntries : task[<<r, i>>].pc = "none" /\ ~task[<<r, i>>].held
        /\ \E k \in 1..2 : done[r][k].ReadErrors = 0
        /\ ~crashed

\* call r took the mutex with its TryLock and has not yet released it
Holds(r) == run[r].pc \in {"Load", "Recv", "Unlock"} /\ ~run[r].busy

\* C27: the published pointer changes only in a step of a call that holds
\* the mutex, which stays held over the step; a call stores at most once
\* between its TryLock and its Unlock, and what it stores is its own metrics;
\* the mutex is released only by the call that holds it; a call whose
\* TryLock fails changes neither the pointer nor the mutex nor the call in
\* flight.
C27_OnlyTheHolderPublishes ==
    [][ /\ metrics' # metrics =>
              \E r \in Runs : Holds(r) /\ run'[r].publishes = run[r].publishes + 1
        /\ (mutex /\ ~mutex') =>
              \E r \in Runs : Holds(r) /\ run[r].pc = "Unlock" /\ ~Holds(r)'
        /\ \A r \in Runs :
              /\ run[r].publishes <= 1
              /\ run'[r].publishes > run[r].publishes =>
                    /\ Holds(r) /\ Holds(r)'
                    /\ mutex /\ mutex'
                    /\ metrics' = run'[r].metrics
              /\ (run[r].pc = "TryLock" /\ mutex /\ run'[r] # run[r]) =>
                    /\ metrics' = metrics
                    /\ mutex'
                    /\ ~Holds(r)'
                    /\ \A q \in Runs \ {r} : run'[q] = run[q]
      ]_vars

\* a call has stored its metrics once and still holds the mutex, and main's
\* start-up call was turned away while it ran
C27_Witness ==
    \E r, q \in Runs :
        /\ r # q
        /\ Holds(r) /\ run[r].pc = "Unlock" /\ run[r].publishes = 1
        /\ mutex
        /\ metrics = run[r].metrics
        /\ run[q].pc = "done" /\ run[q].busy /\ run[q].publishes = 0

====
